---- MODULE Spec2Model ----
(***************************************************************************)
(* Model of the Tock tutorial capsule (excercises/capsule/src/tutorial.rs). *)
(* The capsule holds two borrowed references, to an alarm and to a          *)
(* humidity driver.  The kernel constructs it with `new`, the board calls   *)
(* `start`, the alarm calls `fired` and the humidity driver calls           *)
(* `callback`.  The alarms and the sensors are the capsule's environment:   *)
(* their state records the requests clients have issued on them.            *)
(***************************************************************************)
EXTENDS Integers, FiniteSets, Sequences, TLC

\* Bounds of the model.
NumAlarms   == 2      \* alarm objects the board could hand to `new`
NumSensors  == 2      \* humidity drivers the board could hand to `new`
MaxHumidity == 2      \* humidity readings are drawn from 0..MaxHumidity
MaxCalls    == 3      \* each entry point is invoked at most MaxCalls times

AlarmRefs    == 1..NumAlarms
HumidityRefs == 1..NumSensors
Humidity     == 0..MaxHumidity

\* Placeholder for a reference of a capsule that is not constructed yet.
NoRef == 0

VARIABLES
    pc,            \* "init" before Tutorial::new has run, "run" after
    capsule,       \* the Tutorial struct: [alarm, humidity]
    alarms,        \* per alarm: is it armed, and how many set requests it got
    sensors,       \* per humidity driver: is a read pending, how many requests
    closed,        \* TRUE: the environment calls back only on request
    newArgs,       \* the references the board passed to `new`
    startCalls,    \* number of completed `start` calls
    firedCalls,    \* number of completed `fired` calls
    callbackCalls, \* number of completed `callback` calls
    lastHumidity,  \* the argument of the last `callback`, -1 if none
    status         \* how the last call completed: "none", "ok" or "err"

vars == <<pc, capsule, alarms, sensors, closed, newArgs, startCalls,
          firedCalls, callbackCalls, lastHumidity, status>>

\* The part of the state a capsule operation could observe or change.
World == [alarms |-> alarms, sensors |-> sensors]

\* What a client does to an alarm when it sets it.
SetAlarm(w, a) ==
    [w EXCEPT !.alarms[a] = [armed |-> TRUE, sets |-> @.sets + 1]]

\* What a client does to a humidity driver when it requests a reading.
ReadHumidity(w, h) ==
    [w EXCEPT !.sensors[h] = [busy |-> TRUE, reads |-> @.reads + 1]]

----------------------------------------------------------------------------
\* The capsule's code.  Each operator gives the outcome of one call: the
\* capsule after it, the world after it, and how the call completed.

new_arms(alarm, humidity, w) ==
    [self   |-> [alarm |-> alarm, humidity |-> humidity],
     w      |-> SetAlarm(w, alarm),
     status |-> "ok"]

\* Tutorial::new
new(alarm, humidity, w) ==
    [self   |-> [alarm |-> alarm, humidity |-> humidity],
     w      |-> w,
     status |-> "ok"]

start_samples(self, w) ==
    [self |-> self, w |-> ReadHumidity(w, self.humidity), status |-> "ok"]

start_arms(self, w) ==
    [self |-> self, w |-> SetAlarm(w, self.alarm), status |-> "ok"]

\* Tutorial::start
start(self, w) ==
    [self |-> self, w |-> w, status |-> "ok"]

fired_reads(self, w) ==
    [self |-> self, w |-> ReadHumidity(w, self.humidity), status |-> "ok"]

fired_rearms(self, w) ==
    [self |-> self, w |-> SetAlarm(w, self.alarm), status |-> "ok"]

\* time::Client::fired
fired(self, w) ==
    [self |-> self, w |-> w, status |-> "ok"]

callback_threshold(self, w, humidity) ==
    [self   |-> self,
     w      |-> IF humidity > 0 THEN SetAlarm(w, self.alarm) ELSE w,
     status |-> "ok"]

callback_rebinds(self, w, humidity) ==
    [self   |-> [self EXCEPT !.humidity = (self.humidity % NumSensors) + 1],
     w      |-> w,
     status |-> "ok"]

callback_validates(self, w, humidity) ==
    [self   |-> self,
     w      |-> w,
     status |-> IF humidity >= MaxHumidity THEN "err" ELSE "ok"]

\* HumidityClient::callback
callback(self, w, humidity) ==
    [self |-> self, w |-> w, status |-> "ok"]

----------------------------------------------------------------------------
Init ==
    /\ pc = "init"
    /\ capsule = [alarm |-> NoRef, humidity |-> NoRef]
    /\ alarms = [a \in AlarmRefs |-> [armed |-> FALSE, sets |-> 0]]
    /\ sensors = [h \in HumidityRefs |-> [busy |-> FALSE, reads |-> 0]]
    /\ closed \in BOOLEAN
    /\ newArgs = [alarm |-> NoRef, humidity |-> NoRef]
    /\ startCalls = 0
    /\ firedCalls = 0
    /\ callbackCalls = 0
    /\ lastHumidity = -1
    /\ status = "none"

\* The board constructs the capsule.
CallNew ==
    /\ pc = "init"
    /\ \E a \in AlarmRefs, h \in HumidityRefs :
         LET r == new(a, h, World) IN
           /\ capsule' = r.self
           /\ alarms' = r.w.alarms
           /\ sensors' = r.w.sensors
           /\ status' = r.status
           /\ newArgs' = [alarm |-> a, humidity |-> h]
    /\ pc' = "run"
    /\ UNCHANGED <<closed, startCalls, firedCalls, callbackCalls, lastHumidity>>

\* The board calls start.
CallStart ==
    /\ pc = "run"
    /\ startCalls < MaxCalls
    /\ LET r == start(capsule, World) IN
         /\ capsule' = r.self
         /\ alarms' = r.w.alarms
         /\ sensors' = r.w.sensors
         /\ status' = r.status
    /\ startCalls' = startCalls + 1
    /\ UNCHANGED <<pc, closed, newArgs, firedCalls, callbackCalls, lastHumidity>>

\* The alarm invokes its client; in a closed system only an armed alarm does.
CallFired ==
    /\ pc = "run"
    /\ firedCalls < MaxCalls
    /\ closed => alarms[capsule.alarm].armed
    /\ LET r == fired(capsule, World) IN
         /\ capsule' = r.self
         /\ alarms' = r.w.alarms
         /\ sensors' = r.w.sensors
         /\ status' = r.status
    /\ firedCalls' = firedCalls + 1
    /\ UNCHANGED <<pc, closed, newArgs, startCalls, callbackCalls, lastHumidity>>

\* The humidity driver invokes its client with a reading; in a closed system
\* only a driver with a pending request does.
CallCallback ==
    /\ pc = "run"
    /\ callbackCalls < MaxCalls
    /\ closed => sensors[capsule.humidity].busy
    /\ \E v \in Humidity :
         LET r == callback(capsule, World, v) IN
           /\ capsule' = r.self
           /\ alarms' = r.w.alarms
           /\ sensors' = r.w.sensors
           /\ status' = r.status
           /\ lastHumidity' = v
    /\ callbackCalls' = callbackCalls + 1
    /\ UNCHANGED <<pc, closed, newArgs, startCalls, firedCalls>>

Next == CallNew \/ CallStart \/ CallFired \/ CallCallback

Spec == Init /\ [][Next]_vars

----------------------------------------------------------------------------
\* What an observer outside the capsule can see of it and of its environment.
obs == <<capsule, alarms, sensors>>

----------------------------------------------------------------------------
\* C1: whenever `fired` is invoked on the capsule, the capsule requests a
\* humidity reading from the humidity driver it was constructed with: every
\* fired step raises that driver's count of read requests by one.
C1_FiredRequestsReading ==
    [][CallFired =>
         sensors'[newArgs.humidity].reads = sensors[newArgs.humidity].reads + 1]_vars

\* C2: invoking `start` has no observable effect: the alarms, the humidity
\* drivers and the capsule's two references are the same after the call.
C2_StartNoEffect == [][CallStart => UNCHANGED obs]_vars

C2_Witness == pc = "run" /\ startCalls = MaxCalls /\ firedCalls > 0

C4_CallbackNoEffectAnyValue ==
    [][CallCallback =>
         /\ UNCHANGED obs
         /\ \A v1, v2 \in Humidity :
              callback(capsule, World, v1) = callback(capsule, World, v2)]_vars

C4_Witness == pc = "run" /\ callbackCalls > 1 /\ lastHumidity = MaxHumidity

\* C5: `new(alarm, humidity)` always succeeds and returns a capsule whose
\* fields are exactly the two references passed, and it invokes no operation
\* on either of them.
C5_NewStoresReferences ==
    [][CallNew =>
         /\ status' = "ok"
         /\ capsule'.alarm = newArgs'.alarm
         /\ capsule'.humidity = newArgs'.humidity
         /\ UNCHANGED <<alarms, sensors>>]_vars

C5_Witness ==
    /\ pc = "run"
    /\ startCalls + firedCalls + callbackCalls = 0
    /\ capsule = [alarm |-> NumAlarms, humidity |-> 1]

\* C6: the capsule is never mutated after construction: in every state
\* reached by any interleaving of start, fired and callback calls, its two
\* references are the ones given to `new`.
C6_CapsuleNeverMutated ==
    pc = "run" => /\ capsule.alarm = newArgs.alarm
                  /\ capsule.humidity = newArgs.humidity

C6_Witness ==
    /\ pc = "run"
    /\ startCalls > 0 /\ firedCalls > 0 /\ callbackCalls = MaxCalls
    /\ capsule.humidity = NumSensors

\* C7: no operation of the capsule signals an error: every call made so far
\* completed normally, and `callback` rejects no value it could be given.
C7_NoErrorSignalled ==
    /\ status # "err"
    /\ pc = "run" => /\ start(capsule, World).status = "ok"
                     /\ fired(capsule, World).status = "ok"
                     /\ \A v \in Humidity :
                          callback(capsule, World, v).status = "ok"

C7_Witness ==
    /\ status = "ok"
    /\ callbackCalls > 0 /\ lastHumidity = MaxHumidity
    /\ startCalls > 0 /\ firedCalls > 0

C9_ClosedSystemQuiescent ==
    closed => /\ firedCalls = 0
              /\ callbackCalls = 0
              /\ lastHumidity = -1

C9_Witness == closed /\ pc = "run" /\ startCalls = MaxCalls

====
